---- MODULE Spec2Model ----
(***************************************************************************)
(* A model of tensorpack/train.py: TrainConfig, average_gradients,         *)
(* summary_grads and start_train (graph construction, the feeder thread,   *)
(* the epoch/step loop, the callbacks and the coordinator guard).          *)
(***************************************************************************)
EXTENDS Integers, Sequences, FiniteSets, TLC

\* ------------------------------------------------------------------------
\* Bounds of the model
\* ------------------------------------------------------------------------
MaxStepPerEpoch == 2
MaxEpoch == 3
MaxTower == 2
MaxCapacity == 2
MaxVars == 2
MaxGrad == 1

\* Number of records the dataset yields in one pass of get_data().
DataSize == 2
\* Number of single records one datapoint holds when batched_model_input is false.
BatchLen == 2

\* ------------------------------------------------------------------------
\* State
\* ------------------------------------------------------------------------
VARIABLES
    step_per_epoch,      \* config.step_per_epoch
    max_epoch,           \* config.max_epoch
    nr_tower,            \* config.nr_tower
    capacity,            \* capacity of config.input_queue
    batched_model_input, \* config.batched_model_input
    tower_grads,         \* what optimizer.compute_gradients returns in each tower
    grads,               \* the gradient list handed to summary_grads and apply_gradients
    summaries,           \* positions for which summary_grads added a histogram
    pc,                  \* position of the foreground thread in start_train
    epoch,               \* loop variable of the epoch loop
    step,                \* loop variable of the step loop
    taken,               \* record dequeued by each tower's dequeue op in the running sess.run
    results,             \* the record behind each slice of the last sess.run(fetches)
    global_step,         \* increments done by train_op
    sess,                \* "none", "open", "closed"
    coord_stop,          \* Coordinator: stop requested
    queue,               \* contents of input_queue
    input_th,            \* EnqueueThread: "new", "iter", "enqueue", "dead"
    it,                  \* position of the feeder in the current pass over the dataset
    pending,             \* records of the current datapoint still to be enqueued
    enqueued,            \* records enqueued so far
    consumed,            \* records dequeued so far
    trace,               \* calls made on the loop thread, in order
    reported,            \* the inputs argument of the last trigger_step call
    in_order,            \* every trigger_step call so far reported the record of its rank
    exc,                 \* exception in flight on the foreground thread
    propagated,          \* exception that left start_train
    teardowns,           \* times the coordinator guard released the resources
    init_calls,          \* times session_init.init ran
    ext_stop,            \* an external party requested stop
    feeder_error,        \* the feeder hit an unrecoverable error
    stop_observed,       \* the loop polled should_stop() and saw the stop
    runs_after_stop      \* sess.run(fetches) calls completed after the stop request

cfgvars == <<step_per_epoch, max_epoch, nr_tower, capacity, batched_model_input>>
gradvars == <<tower_grads, grads, summaries>>
loopvars == <<pc, epoch, step, taken, results, global_step, trace, reported,
              in_order, exc,
              propagated, teardowns, init_calls, stop_observed, runs_after_stop>>
feedvars == <<input_th, it, pending, enqueued, feeder_error>>
vars == <<cfgvars, gradvars, loopvars, feedvars, sess, coord_stop, queue,
          consumed, ext_stop>>

\* ------------------------------------------------------------------------
\* Gradients (graph construction)
\* ------------------------------------------------------------------------
\* A gradient the loss does not depend on (Python None).
None == -1
NoRecord == 0

GradVals == 0..MaxGrad

RECURSIVE SumSeq(_)
SumSeq(s) == IF s = << >> THEN 0 ELSE Head(s) + SumSeq(Tail(s))

MinLen(tg) == IF Len(tg) = 0 THEN 0
              ELSE CHOOSE n \in {Len(tg[t]) : t \in 1..Len(tg)} :
                     \A t \in 1..Len(tg) : n <= Len(tg[t])

\* tf.expand_dims(g, 0) raises on a None gradient.
AverageRaises(tg) ==
    \E i \in 1..MinLen(tg) : \E t \in 1..Len(tg) : tg[t][i][1] = None

\* Variant: the stacked gradients are summed, not averaged.
reduce_sum(gs) == SumSeq(gs)

\* tf.reduce_mean over the tower dimension
reduce_mean(gs) == SumSeq(gs) \div Len(gs)

average_gradients(tg) ==
    [i \in 1..MinLen(tg) |->
        << reduce_mean([t \in 1..Len(tg) |-> tg[t][i][1]]), tg[1][i][2] >>]

summary_grads(gs) == {i \in 1..Len(gs) : gs[i][1] # None}

\* lines 137-160: the gradient list of the multi-tower and of the single-tower path
BuildRaises(n, tg) == n > 1 /\ AverageRaises(tg)

\* Variant: the single-tower path drops the entries whose gradient is absent.
BuildGradsDropNone(n, tg) ==
    IF n > 1 THEN average_gradients(tg) ELSE SelectSeq(tg[n], LAMBDA p : p[1] # None)

BuildGrads(n, tg) == IF n > 1 THEN average_gradients(tg) ELSE tg[n]

\* ------------------------------------------------------------------------
\* Loop helpers
\* ------------------------------------------------------------------------
\* Variant: the epoch loop runs max_epoch epochs.
EpochRangeInclusive(m) == 1..m

\* xrange(1, config.max_epoch)
EpochRange(m) == 1..(m - 1)

\* Variant: the step loop runs one extra step.
StepRangeInclusive(s) == 0..s

\* tqdm.trange(config.step_per_epoch)
StepRange(s) == 0..(s - 1)

\* Variant: the poll never sees the stop request.
should_stop_never == FALSE

\* coord.should_stop()
should_stop == coord_stop

\* Variant: the gradients are applied twice in a step.
ApplyStepTwice(g) == g + 2

\* train_op: apply_gradients(grads, get_global_step_var()) increments the global step
ApplyStep(g) == g + 1

\* model_inputs after graph construction: the dequeue op of the tower built last
ModelInputsTower(n) == IF n > 1 THEN n ELSE 1

\* cost_var and output_vars after graph construction: those of the tower built last
CostTower(n) == IF n > 1 THEN n ELSE 1
OutputsTower(n) == IF n > 1 THEN n ELSE 1

Towers(n) == IF n > 1 THEN 1..n ELSE {1}

\* FIFOQueue.dequeue and FIFOQueue.enqueue
QueueHead(q) == Head(q)
QueueRest(q) == Tail(q)
QueuePut(q, r) == Append(q, r)
\* Variant: the queue accepts one record more than its capacity.
QueueHasRoomOffByOne(q, c) == Len(q) <= c

QueueHasRoom(q, c) == Len(q) < c

\* Variant: the loop body is not wrapped by the coordinator guard.
UnguardedExit == "terminated"

\* Number of calls of one kind made so far on the loop thread.
CountOf(e) == Cardinality({i \in DOMAIN trace : trace[i] = e})

\* where an exit from the body of the `with` statement goes
GuardedExit == "guard_exit"

\* Variant: an observed stop breaks out of the step loop only.
OnStopBreak == "trigger_epoch"

\* `return` at line 188: an observed stop leaves start_train
OnStop == GuardedExit

\* ------------------------------------------------------------------------
\* Initial states
\* ------------------------------------------------------------------------
DefaultGrads(n) == [t \in 1..n |-> << <<1, 1>> >>]

InitCommon ==
    /\ grads = << >>
    /\ summaries = {}
    /\ pc = "build"
    /\ epoch = 0
    /\ step = 0
    /\ taken = [t \in Towers(nr_tower) |-> NoRecord]
    /\ results = [inputs |-> NoRecord, cost |-> NoRecord, outputs |-> NoRecord]
    /\ global_step = 0
    /\ sess = "none"
    /\ coord_stop = FALSE
    /\ queue = << >>
    /\ input_th = "new"
    /\ it = 0
    /\ pending = << >>
    /\ enqueued = 0
    /\ consumed = 0
    /\ trace = << >>
    /\ reported = NoRecord
    /\ in_order = TRUE
    /\ exc = "none"
    /\ propagated = "none"
    /\ teardowns = 0
    /\ init_calls = 0
    /\ ext_stop = FALSE
    /\ feeder_error = FALSE
    /\ stop_observed = FALSE
    /\ runs_after_stop = 0

Init ==
    /\ step_per_epoch \in 1..MaxStepPerEpoch
    /\ max_epoch \in 1..MaxEpoch
    /\ nr_tower \in 1..MaxTower
    /\ capacity \in 1..MaxCapacity
    /\ batched_model_input \in BOOLEAN
    /\ tower_grads = DefaultGrads(nr_tower)
    /\ InitCommon

\* ------------------------------------------------------------------------
\* Foreground thread: start_train
\* ------------------------------------------------------------------------
\* Variant: the exception is caught and the loop goes on.
RaiseSwallowed(e) ==
    /\ exc' = e
    /\ pc' = "poll"

\* No handler in the body of the `with` statement: an exception leaves the block.
Raise(e) ==
    /\ exc' = e
    /\ pc' = GuardedExit

\* lines 113-167: graph construction
Build ==
    /\ pc = "build"
    /\ \/ /\ ~BuildRaises(nr_tower, tower_grads)
          /\ grads' = BuildGrads(nr_tower, tower_grads)
          /\ summaries' = summary_grads(grads')
          /\ pc' = "session"
          /\ UNCHANGED propagated
       \/ /\ BuildRaises(nr_tower, tower_grads)
          /\ pc' = "terminated"
          /\ propagated' = "TypeError"
          /\ UNCHANGED <<grads, summaries>>
       \/ /\ pc' = "terminated"
          /\ propagated' = "ModelError"
          /\ UNCHANGED <<grads, summaries>>
    /\ UNCHANGED <<cfgvars, tower_grads, epoch, step, taken, results, global_step,
                   trace, reported, in_order, exc, teardowns, init_calls, stop_observed,
                   runs_after_stop, feedvars, sess, coord_stop, queue,
                   consumed, ext_stop>>

\* line 168
CreateSession ==
    /\ pc = "session"
    /\ sess' = "open"
    /\ pc' = "session_init"
    /\ UNCHANGED <<cfgvars, gradvars, epoch, step, taken, results, global_step,
                   trace, reported, in_order, exc, propagated, teardowns, init_calls,
                   stop_observed, runs_after_stop, feedvars, coord_stop, queue, consumed, ext_stop>>

\* line 169
SessionInit ==
    /\ pc = "session_init"
    /\ init_calls' = init_calls + 1
    /\ \/ /\ pc' = "start_threads"
          /\ UNCHANGED propagated
       \/ /\ pc' = "terminated"
          /\ propagated' = "InitError"
    /\ UNCHANGED <<cfgvars, gradvars, epoch, step, taken, results, global_step,
                   trace, reported, in_order, exc, teardowns, stop_observed,
                   runs_after_stop, feedvars, sess, coord_stop, queue,
                   consumed, ext_stop>>

\* Variant: the feeder thread is created but never started.
FeederNotStarted == "new"

\* input_th.start() (line 177): the feeder begins to iterate over the dataset
FeederStarted == "iter"

\* lines 172-177
StartThreads ==
    /\ pc = "start_threads"
    /\ input_th' = FeederStarted
    /\ pc' = "before_train"
    /\ UNCHANGED <<cfgvars, gradvars, epoch, step, taken, results, global_step,
                   trace, reported, in_order, exc, propagated, teardowns, init_calls,
                   stop_observed, runs_after_stop, it, pending, enqueued,
                   feeder_error, sess, coord_stop, queue, consumed, ext_stop>>

\* Enter epoch e of the epoch loop, or leave the loop when the range is exhausted.
EnterEpoch(e) ==
    IF e \in EpochRange(max_epoch)
    THEN /\ epoch' = e
         /\ step' = 0
         /\ pc' = "poll"
    ELSE /\ pc' = GuardedExit
         /\ UNCHANGED <<epoch, step>>

\* lines 181-183
BeforeTrain ==
    /\ pc = "before_train"
    /\ trace' = Append(trace, "before_train")
    /\ \/ /\ EnterEpoch(1)
          /\ UNCHANGED exc
       \/ /\ Raise("CallbackError")
          /\ UNCHANGED <<epoch, step>>
    /\ UNCHANGED <<cfgvars, gradvars, taken, results, global_step, reported, in_order,
                   propagated, teardowns, init_calls, stop_observed,
                   runs_after_stop, feedvars, sess, coord_stop, queue,
                   consumed, ext_stop>>

\* lines 187-188
Poll ==
    /\ pc = "poll"
    /\ IF should_stop
       THEN /\ stop_observed' = TRUE
            /\ pc' = OnStop
       ELSE /\ pc' = "run"
            /\ UNCHANGED stop_observed
    /\ UNCHANGED <<cfgvars, gradvars, epoch, step, taken, results, global_step,
                   trace, reported, in_order, exc, propagated, teardowns, init_calls,
                   runs_after_stop, feedvars, sess, coord_stop, queue,
                   consumed, ext_stop>>

\* line 192 with lines 121-128: one tower's dequeue op runs inside sess.run(fetches)
RunDequeue ==
    /\ pc = "run"
    /\ queue # << >>
    /\ \E t \in Towers(nr_tower) :
          /\ taken[t] = NoRecord
          /\ taken' = [taken EXCEPT ![t] = QueueHead(queue)]
    /\ queue' = QueueRest(queue)
    /\ consumed' = consumed + 1
    /\ UNCHANGED <<cfgvars, gradvars, pc, epoch, step, results, global_step,
                   trace, reported, in_order, exc, propagated, teardowns, init_calls,
                   stop_observed, runs_after_stop, feedvars, sess, coord_stop, ext_stop>>

\* lines 191-195: sess.run(fetches) returns; train_op has incremented the global step
RunComplete ==
    /\ pc = "run"
    /\ \A t \in Towers(nr_tower) : taken[t] # NoRecord
    /\ global_step' = ApplyStep(global_step)
    /\ results' = [inputs |-> taken[ModelInputsTower(nr_tower)],
                   cost |-> taken[CostTower(nr_tower)],
                   outputs |-> taken[OutputsTower(nr_tower)]]
    /\ trace' = Append(trace, "run")
    /\ runs_after_stop' = IF coord_stop THEN runs_after_stop + 1 ELSE runs_after_stop
    /\ pc' = "trigger_step"
    /\ UNCHANGED <<cfgvars, gradvars, epoch, step, taken, reported, in_order, exc,
                   propagated, teardowns, init_calls, stop_observed, feedvars, sess,
                   coord_stop, queue, consumed, ext_stop>>

\* line 196 and the step loop's increment (line 185)
TriggerStep ==
    /\ pc = "trigger_step"
    /\ trace' = Append(trace, "trigger_step")
    /\ reported' = results.inputs
    /\ in_order' = (in_order /\ results.inputs = CountOf("trigger_step") + 1)
    /\ \/ /\ UNCHANGED exc
          /\ IF step + 1 \in StepRange(step_per_epoch)
             THEN /\ step' = step + 1
                  /\ pc' = "poll"
             ELSE /\ pc' = "trigger_epoch"
                  /\ UNCHANGED step
       \/ /\ Raise("CallbackError")
          /\ UNCHANGED step
    /\ taken' = [t \in Towers(nr_tower) |-> NoRecord]
    /\ UNCHANGED <<cfgvars, gradvars, epoch, results, global_step,
                   propagated, teardowns, init_calls, stop_observed,
                   runs_after_stop, feedvars, sess, coord_stop, queue,
                   consumed, ext_stop>>

\* lines 198-199: the epoch hook runs summary_op, which takes a record from the queue
TriggerEpoch ==
    /\ pc = "trigger_epoch"
    /\ queue # << >>
    /\ queue' = QueueRest(queue)
    /\ consumed' = consumed + 1
    /\ trace' = Append(trace, "trigger_epoch")
    /\ \/ /\ EnterEpoch(epoch + 1)
          /\ UNCHANGED exc
       \/ /\ Raise("CallbackError")
          /\ UNCHANGED <<epoch, step>>
    /\ UNCHANGED <<cfgvars, gradvars, taken, results, global_step, reported, in_order,
                   propagated, teardowns, init_calls, stop_observed,
                   runs_after_stop, feedvars, sess, coord_stop,
                   ext_stop>>

\* lines 179-180: leaving the `with` block runs the coordinator guard, which
\* requests stop and closes the session; an exception in flight continues.
GuardExit ==
    /\ pc = "guard_exit"
    /\ coord_stop' = TRUE
    /\ sess' = "closed"
    /\ teardowns' = teardowns + 1
    /\ propagated' = exc
    /\ pc' = "terminated"
    /\ UNCHANGED <<cfgvars, gradvars, epoch, step, taken, results, global_step,
                   trace, reported, in_order, exc, init_calls, stop_observed,
                   runs_after_stop, feedvars, queue, consumed,
                   ext_stop>>

LoopNext ==
    \/ Build
    \/ CreateSession
    \/ SessionInit
    \/ StartThreads
    \/ BeforeTrain
    \/ Poll
    \/ RunDequeue
    \/ RunComplete
    \/ TriggerStep
    \/ TriggerEpoch
    \/ GuardExit

\* ------------------------------------------------------------------------
\* Feeder thread (EnqueueThread) and the other parties
\* ------------------------------------------------------------------------
\* The records one datapoint puts on the queue: enqueue (line 131) or enqueue_many (line 133)
RecordsOf(dp) == IF batched_model_input THEN <<dp>> ELSE [k \in 1..BatchLen |-> dp]

\* Variant: the feeder ends with the first pass over the dataset.
FeederAfterPassStops == "dead"

\* Where the feeder goes when the dataset iterator is exhausted: it iterates again.
FeederAfterPass == "iter"

\* The feeder polls the coordinator and pulls the next datapoint; an exhausted
\* iterator restarts from the beginning.
FeederPull ==
    /\ input_th = "iter"
    /\ IF should_stop
       THEN /\ input_th' = "dead"
            /\ UNCHANGED <<it, pending>>
       ELSE IF it = DataSize
       THEN /\ it' = 0
            /\ input_th' = FeederAfterPass
            /\ UNCHANGED pending
       ELSE /\ it' = it + 1
            /\ pending' = RecordsOf(it')
            /\ input_th' = "enqueue"
    /\ UNCHANGED <<cfgvars, gradvars, loopvars, enqueued, feeder_error, sess,
                   coord_stop, queue, consumed, ext_stop>>

\* Variant: the feeder's sess.run also runs train_op.
FeederEnqueueRunsTrainOp ==
    /\ input_th = "enqueue"
    /\ sess = "open"
    /\ QueueHasRoom(queue, capacity)
    /\ queue' = QueuePut(queue, enqueued + 1)
    /\ enqueued' = enqueued + 1
    /\ pending' = Tail(pending)
    /\ input_th' = IF pending' = << >> THEN "iter" ELSE "enqueue"
    /\ global_step' = global_step + 1
    /\ UNCHANGED <<cfgvars, gradvars, pc, epoch, step, taken, results, trace,
                   reported, in_order, exc, propagated, teardowns, init_calls,
                   stop_observed, runs_after_stop, it, feeder_error, sess,
                   coord_stop, consumed, ext_stop>>

\* The enqueue op puts one record on the queue, blocking while the queue is full.
FeederEnqueue ==
    /\ input_th = "enqueue"
    /\ sess = "open"
    /\ QueueHasRoom(queue, capacity)
    /\ queue' = QueuePut(queue, enqueued + 1)
    /\ enqueued' = enqueued + 1
    /\ pending' = Tail(pending)
    /\ input_th' = IF pending' = << >> THEN "iter" ELSE "enqueue"
    /\ UNCHANGED <<cfgvars, gradvars, loopvars, it, feeder_error, sess,
                   coord_stop, consumed, ext_stop>>

\* An unrecoverable dataset or enqueue error: logged, global cancellation requested.
FeederError ==
    /\ input_th \in {"iter", "enqueue"}
    /\ sess = "open"
    /\ feeder_error' = TRUE
    /\ coord_stop' = TRUE
    /\ input_th' = "dead"
    /\ UNCHANGED <<cfgvars, gradvars, loopvars, it, pending, enqueued, sess,
                   queue, consumed, ext_stop>>

\* Closing the session cancels the feeder's pending enqueue.
FeederCancelled ==
    /\ input_th = "enqueue"
    /\ sess = "closed"
    /\ input_th' = "dead"
    /\ UNCHANGED <<cfgvars, gradvars, loopvars, it, pending, enqueued,
                   feeder_error, sess, coord_stop, queue, consumed,
                   ext_stop>>

FeederNext ==
    \/ FeederPull
    \/ FeederEnqueue
    \/ FeederError
    \/ FeederCancelled

\* The controlling process requests stop on the coordinator created at line 172.
ExternalStop ==
    /\ pc \in {"before_train", "poll", "run", "trigger_step", "trigger_epoch"}
    /\ ~coord_stop
    /\ coord_stop' = TRUE
    /\ ext_stop' = TRUE
    /\ UNCHANGED <<cfgvars, gradvars, loopvars, feedvars, sess, queue,
                   consumed>>

Next ==
    \/ LoopNext
    \/ FeederNext
    \/ ExternalStop

Spec == Init /\ [][Next]_vars

\* The threads are scheduled by the operating system: each keeps running while it can.
FairSpec == Spec /\ WF_vars(LoopNext) /\ WF_vars(FeederNext)

\* Runs in which nobody requests stop and the feeder does not fail.
FeederRuns ==
    \/ FeederPull
    \/ FeederEnqueue
    \/ FeederCancelled

NoCancelNext ==
    \/ LoopNext
    \/ FeederRuns

NoCancelSpec == Init /\ [][NoCancelNext]_vars /\ WF_vars(LoopNext) /\ WF_vars(FeederRuns)

\* ------------------------------------------------------------------------
\* Graph construction alone, over all small per-tower gradient lists
\* ------------------------------------------------------------------------
\* compute_gradients pairs each gradient with its variable, in the order of
\* the trainable variables, which is the same in every tower.
WithVars(gs) == [t \in DOMAIN gs |-> [i \in DOMAIN gs[t] |-> <<gs[t][i], i>>]]

\* Gradient values are drawn as multiples of the tower count, so that the mean
\* over the towers is a value of the model's integer arithmetic.
TowerGradVals(n) == {n * g : g \in GradVals}

GradInit ==
    /\ step_per_epoch = 1
    /\ max_epoch = 1
    /\ nr_tower \in 1..MaxTower
    /\ capacity = 1
    /\ batched_model_input = TRUE
    /\ \E l \in 0..MaxVars :
          \E gs \in [1..nr_tower -> [1..l -> TowerGradVals(nr_tower) \cup {None}]] :
             tower_grads = WithVars(gs)
    /\ InitCommon

GradNext == Build

GradSpec == GradInit /\ [][GradNext]_vars

\* ------------------------------------------------------------------------
\* Properties
\* ------------------------------------------------------------------------
NoCancellation == ~ext_stop /\ ~feeder_error

CleanRunDone ==
    pc = "terminated" /\ propagated = "none" /\ NoCancellation /\ teardowns = 1

C2_NoStepAfterStop ==
    /\ [](runs_after_stop <= 1)
    /\ [](stop_observed => pc \in {"guard_exit", "terminated"})
    /\ [][stop_observed =>
            /\ global_step' = global_step
            /\ taken' = taken
            /\ trace' = trace
            /\ consumed' = consumed]_vars

C2_Witness ==
    /\ stop_observed
    /\ runs_after_stop = 1
    /\ pc = "terminated"
    /\ CountOf("run") < step_per_epoch * (max_epoch - 1)

\* C3: after a stop request both threads terminate: the foreground loop ends
\* and the feeder thread stops, in every interleaving.
C3_BothThreadsTerminate ==
    coord_stop ~> (pc = "terminated" /\ input_th = "dead")

\* C4: without cancellation the i-th trigger_step call reports the i-th
\* record the feeder enqueued.
C4_FIFO ==
    NoCancellation => in_order

\* C5: the queue never holds more than capacity records, the records enqueued
\* and not yet consumed are exactly the queue's and never exceed capacity, so
\* an enqueue beyond capacity completes only after a record was consumed.
C5_Backpressure ==
    /\ Len(queue) <= capacity
    /\ enqueued - consumed = Len(queue)
    /\ enqueued - consumed <= capacity
    /\ (enqueued > capacity => consumed >= 1)

C5_Witness ==
    /\ input_th = "enqueue"
    /\ Len(queue) = capacity
    /\ enqueued = capacity
    /\ consumed = 0
    /\ pc = "run"

LoopEntered == trace # << >>

\* C6: on every exit of the training loop (completion, observed cancellation,
\* exception) the guard's teardown has run exactly once: the session is
\* closed, stop is requested, and the feeder thread is dead or its next step
\* ends it.
C6_TeardownOnEveryExit ==
    /\ [](teardowns <= 1)
    /\ []((pc = "terminated" /\ LoopEntered) =>
             /\ teardowns = 1
             /\ sess = "closed"
             /\ coord_stop
             /\ (input_th = "dead" \/ ENABLED FeederNext))
    /\ [][teardowns' # teardowns => (teardowns' = 1 /\ sess' = "closed")]_vars
    /\ [][(pc = "terminated" /\ LoopEntered /\ input_th # "dead") =>
             input_th' = "dead"]_vars

C6_Witness ==
    /\ pc = "terminated"
    /\ stop_observed
    /\ teardowns = 1
    /\ input_th = "dead"

\* C7: after a feeder error the foreground loop eventually exits, and the
\* feeder's error is not re-raised on the foreground thread.
C7_FeederErrorEndsLoop ==
    /\ (feeder_error ~> pc = "terminated")
    /\ [](feeder_error => propagated \in {"none", "CallbackError"})

\* C8: an exception raised by a callback hook leaves start_train, no step or
\* hook runs after it, and the teardown still runs.
C8_CallbackErrorPropagates ==
    /\ [](exc = "CallbackError" => pc \in {"guard_exit", "terminated"})
    /\ []((exc = "CallbackError" /\ pc = "terminated") =>
             (propagated = "CallbackError" /\ teardowns = 1 /\ sess = "closed"))
    /\ [][exc = "CallbackError" =>
            /\ trace' = trace
            /\ global_step' = global_step
            /\ taken' = taken
            /\ exc' = exc]_vars

C8_Witness ==
    /\ pc = "terminated"
    /\ propagated = "CallbackError"
    /\ teardowns = 1
    /\ trace # << >>
    /\ trace[Len(trace)] = "trigger_step"

StepsBefore(i) == Cardinality({j \in 1..i : trace[j] = "trigger_step"})
EpochsUpTo(i) == Cardinality({j \in 1..i : trace[j] = "trigger_epoch"})

\* C9: before_train is called once and first; every sess.run(fetches) is
\* followed by exactly one trigger_step before the next one; trigger_epoch is
\* called once per completed epoch, right after that epoch's last trigger_step.
C9_CallbackSequence ==
    /\ CountOf("before_train") <= 1
    /\ (trace # << >> => trace[1] = "before_train")
    /\ \A i \in DOMAIN trace :
          /\ (trace[i] = "run" /\ i < Len(trace)) => trace[i + 1] = "trigger_step"
          /\ (trace[i] = "run" /\ i = Len(trace)) => pc = "trigger_step"
          /\ trace[i] = "trigger_step" => (i > 1 /\ trace[i - 1] = "run")
          /\ trace[i] = "trigger_epoch" =>
                /\ i > 1 /\ trace[i - 1] = "trigger_step"
                /\ StepsBefore(i) = step_per_epoch * EpochsUpTo(i)
    /\ CountOf("run") = global_step
    /\ (exc = "none" /\ pc # "trigger_epoch") =>
          CountOf("trigger_epoch") = CountOf("trigger_step") \div step_per_epoch

C9_Witness ==
    /\ pc = "terminated"
    /\ CountOf("trigger_epoch") = 2
    /\ CountOf("trigger_step") = 2 * step_per_epoch
    /\ step_per_epoch = 2

\* C10: with one tower the gradient list handed to apply_gradients is the
\* tower's own list: same length, same order, same gradient and variable at
\* every position.
C10_SingleTowerIdentity ==
    (pc = "session" /\ nr_tower = 1) =>
        /\ Len(grads) = Len(tower_grads[1])
        /\ \A i \in 1..Len(grads) :
              /\ grads[i][1] = tower_grads[1][i][1]
              /\ grads[i][2] = tower_grads[1][i][2]

C10_Witness ==
    /\ pc = "session"
    /\ nr_tower = 1
    /\ Len(grads) = 2
    /\ grads[1][1] = None
    /\ grads[2][1] = 1

TowerSum(i) == SumSeq([t \in 1..nr_tower |-> tower_grads[t][i][1]])

\* C11: with N > 1 towers of equal-length gradient lists, average_gradients
\* returns a list of that length whose i-th gradient is (g_1+...+g_N)/N (so
\* N equal values g give g) and whose i-th variable is tower 0's.
C11_AverageIsMean ==
    (pc = "session" /\ nr_tower > 1) =>
        /\ Len(grads) = Len(tower_grads[1])
        /\ \A i \in 1..Len(grads) :
              /\ nr_tower * grads[i][1] = TowerSum(i)
              /\ (\A t \in 1..nr_tower : tower_grads[t][i][1] = tower_grads[1][i][1])
                    => grads[i][1] = tower_grads[1][i][1]
              /\ grads[i][2] = tower_grads[1][i][2]

C11_Witness ==
    /\ pc = "session"
    /\ nr_tower = 2
    /\ Len(grads) = 2
    /\ tower_grads[1][1][1] = 0
    /\ tower_grads[2][1][1] = 2
    /\ grads[1][1] = 1
    /\ tower_grads[1][2][1] = 2
    /\ tower_grads[2][2][1] = 2
    /\ grads[2][1] = 2

AbsentEverywhere(i) == \A t \in 1..Len(tower_grads) : tower_grads[t][i][1] = None

\* C12: a gradient entry that is absent is skipped by summary_grads but is
\* carried, at its position and with its variable, to apply_gradients, for
\* one tower and for several towers alike.
C12_AbsentCarriedThrough ==
    (pc # "build" /\ propagated # "ModelError") =>
        /\ pc = "session"
        /\ Len(grads) = Len(tower_grads[1])
        /\ \A i \in 1..Len(grads) :
              AbsentEverywhere(i) =>
                 /\ grads[i][1] = None
                 /\ grads[i][2] = tower_grads[1][i][2]
                 /\ i \notin summaries

\* C13: the inputs, loss and outputs passed to trigger_step are those of the
\* records the step consumed: every record the step dequeued is the record
\* reported, and loss and outputs were computed from it.
C13_ReportedIsConsumed ==
    pc = "trigger_step" =>
        /\ \A t \in Towers(nr_tower) : taken[t] = results.inputs
        /\ results.cost = results.inputs
        /\ results.outputs = results.inputs

\* C14: the stop flag is read only at the poll before a step, never while
\* sess.run(fetches) is running, and every sess.run(fetches) that has started
\* returns and is followed by its trigger_step call.
C14_InFlightFetchCompletes ==
    /\ [][pc = "run" => pc' \in {"run", "trigger_step"}]_vars
    /\ [][stop_observed' # stop_observed => pc = "poll"]_vars
    /\ (pc = "run" ~> pc = "trigger_step")
    /\ (pc = "trigger_step" ~> (trace # << >> /\ trace[Len(trace)] = "trigger_step"))

\* C15: without cancellation or error the feeder outlives every pass over the
\* dataset: it stops only after the loop has ended, and the loop eventually
\* ends, having run all its step_per_epoch * (max_epoch - 1) steps unless an
\* exception ended it, also when that takes more records than one pass yields.
C15_FeederRestarts ==
    /\ [](input_th = "dead" => pc = "terminated")
    /\ <>(/\ pc = "terminated"
          /\ propagated = "none" =>
                CountOf("run") = step_per_epoch * (max_epoch - 1))

C15_Witness ==
    /\ pc = "terminated"
    /\ propagated = "none"
    /\ batched_model_input
    /\ enqueued > 2 * DataSize
    /\ CountOf("run") = step_per_epoch * (max_epoch - 1)
    /\ CountOf("run") > DataSize

InStepLoop == pc \in {"poll", "run", "trigger_step", "trigger_epoch"}

\* C16: no step runs before initialization is complete: whenever the loop is
\* in or past its first step, session_init.init has run exactly once on an
\* open session and the feeder thread has been started.
C16_InitBeforeRunning ==
    /\ init_calls <= 1
    /\ (InStepLoop \/ global_step > 0 \/ consumed > 0) =>
          /\ init_calls = 1
          /\ input_th # "new"
          /\ sess # "none"
          /\ CountOf("before_train") = 1

C16_Witness ==
    /\ pc = "run"
    /\ global_step = 0
    /\ consumed = 1
    /\ init_calls = 1
    /\ input_th \in {"iter", "enqueue"}

ConstructionFailed == propagated \in {"TypeError", "ModelError", "InitError"}

\* C17: when graph construction or session initialization raises, no session
\* is left open and no feeder thread has been started.
C17_NoPartialAcquisition ==
    ConstructionFailed =>
        /\ sess # "open"
        /\ input_th = "new"
        /\ teardowns = 0
        /\ global_step = 0

FeederStep == input_th # "new" /\ feedvars' # feedvars

\* C18: the variables (the global step with them) change only when a
\* sess.run(fetches) of the loop completes; a step of the feeder thread
\* changes only the feeder's own state, the queue and, on error, the stop
\* flag, and leaves the loop's state and counters as they are.
C18_OnlyLoopMutates ==
    /\ [][global_step' # global_step => (pc = "run" /\ pc' = "trigger_step")]_vars
    /\ [][FeederStep =>
            /\ UNCHANGED <<cfgvars, gradvars, loopvars, sess, consumed, ext_stop>>
            /\ (coord_stop' # coord_stop => feeder_error')
            /\ (queue' # queue => queue' = Append(queue, enqueued'))]_vars

C18_Witness ==
    /\ feeder_error
    /\ coord_stop
    /\ ~ext_stop
    /\ global_step = 1
    /\ enqueued = 2
    /\ pc = "trigger_step"

EpochHooks == CountOf("trigger_epoch")
StepHooks == CountOf("trigger_step")

\* C19: trigger_epoch is called only when exactly step_per_epoch steps of the
\* current epoch are done, so the trigger_epoch calls never exceed the
\* trigger_step calls divided by step_per_epoch, and once a poll has observed
\* the stop no trigger_epoch is called for the epoch left unfinished.
C19_EpochHookOnlyAfterFullEpoch ==
    /\ [](EpochHooks * step_per_epoch <= StepHooks)
    /\ [][EpochHooks' # EpochHooks =>
            /\ EpochHooks' = EpochHooks + 1
            /\ StepHooks = step_per_epoch * EpochHooks'
            /\ step = step_per_epoch - 1]_vars
    /\ [][stop_observed' => EpochHooks' = EpochHooks]_vars
    /\ []((stop_observed /\ step > 0) => StepHooks > step_per_epoch * EpochHooks)

C19_Witness ==
    /\ stop_observed
    /\ pc = "terminated"
    /\ step_per_epoch = 2
    /\ EpochHooks = 1
    /\ StepHooks = 3

\* C20: train_op runs exactly once per executed step: the global step (counted
\* from its value at loop start) equals the number of sess.run(fetches) calls
\* completed, grows by one with each of them, for every tower count, and is
\* step_per_epoch * (max_epoch - 1) after a run nobody cancelled.
C20_GlobalStepCountsSteps ==
    /\ [](global_step = CountOf("run"))
    /\ [][global_step' # global_step =>
            /\ global_step' = global_step + 1
            /\ trace' = Append(trace, "run")]_vars
    /\ [][trace' # trace /\ trace'[Len(trace')] = "run" =>
            global_step' = global_step + 1]_vars
    /\ [](CleanRunDone => global_step = step_per_epoch * (max_epoch - 1))

C20_Witness ==
    /\ CleanRunDone
    /\ nr_tower = 2
    /\ step_per_epoch = 2
    /\ max_epoch = 3
    /\ global_step = 4
    /\ consumed = 10

====
